---- MODULE Spec2Model ----
(***************************************************************************)
(* Audio-Intent-Detection (main.ipynb): the notebook's preprocessing       *)
(* functions, its training cell and its inference function as a state      *)
(* machine.                                                                *)
(*                                                                         *)
(* A waveform is modelled by its sample counts: a leading margin, a body   *)
(* and a trailing margin, the margins lying `quiet` dB below the clip's    *)
(* peak.  `path` names the file the samples were decoded from and is kept  *)
(* by every array derived from them, so that a row can be traced back to   *)
(* its CSV line.  A MFCC matrix is modelled by its shape and by how many   *)
(* of its columns are computed columns (`kept`) and how many are zero      *)
(* columns appended on the right (`zeros`); `branch` records which branch  *)
(* of convert_to_mfcc stored it.  `rate` is the sample rate of the file a  *)
(* waveform was decoded from (the array itself does not carry it).         *)
(* Strings are sequences of                                                *)
(* character codes.  Pandas DataFrames holding a Signal column live on a   *)
(* heap and are named by reference, as Python names them.                  *)
(***************************************************************************)
EXTENDS Integers, Sequences, FiniteSets, TLC

VARIABLES
    csv,    \* the CSV file read_data is given: its rows, each with the audio file behind its path
    heap,   \* the feature DataFrames that exist, by reference (position in the sequence)
    nb,     \* the notebook's top-level names
    pc,     \* the next step of the notebook
    calls,  \* calls made to a notebook function from outside the training cell: arguments and result
    fit     \* the state of cnn_model.fit and of its ModelCheckpoint callback

vars == <<csv, heap, nb, pc, calls, fit>>

----------------------------------------------------------------------------
(* Bounds of the model *)

MaxRows == 2        \* rows of a CSV file
MaxLoss == 3        \* validation losses are 1..MaxLoss
MaxCalls == 2       \* calls of remove_outliers made in one session
MaxLoads == 2       \* times the cell that reads and trims a CSV is run in one session

(* Program constants *)

HopMfcc == 512      \* the hop of librosa.feature.mfcc, as written in convert_to_mfcc
NMfcc == 20         \* rows of the matrix librosa.feature.mfcc returns
Epochs == 200       \* epochs=200 of cnn_model.fit

None == [kind |-> "None"]

----------------------------------------------------------------------------
(* Arithmetic.  A length in seconds is a rational <<numerator, denominator>>. *)

Min(a, b) == IF a <= b THEN a ELSE b
Max(a, b) == IF a >= b THEN a ELSE b

\* math.ceil(p / q) for q > 0
ceil(p, q) == -((-p) \div q)

RECURSIVE SeqToSet(_)
SeqToSet(s) == IF s = <<>> THEN {} ELSE {Head(s)} \cup SeqToSet(Tail(s))

----------------------------------------------------------------------------
(* Audio files and CSV files the model draws its inputs from *)

Samples(w) == w.lead + w.body + w.trail

\* the audio files on disk: sample rate and samples (without the path)
Files ==
    { [rate |-> 512,  lead |-> 0,   body |-> 512,  trail |-> 0,   quiet |-> 20],
      [rate |-> 512,  lead |-> 256, body |-> 1024, trail |-> 256, quiet |-> 20],
      [rate |-> 512,  lead |-> 256, body |-> 1024, trail |-> 0,   quiet |-> 5],
      [rate |-> 512,  lead |-> 0,   body |-> 1280, trail |-> 0,   quiet |-> 20],
      [rate |-> 512,  lead |-> 0,   body |-> 2048, trail |-> 0,   quiet |-> 20],
      [rate |-> 1024, lead |-> 0,   body |-> 2048, trail |-> 0,   quiet |-> 20],
      [rate |-> 1024, lead |-> 0,   body |-> 2560, trail |-> 0,   quiet |-> 20] }

Actions == {<<1>>, <<2>>}
Objects == {<<1>>, <<2>>}

CsvRows == [file : Files, action : Actions, object : Objects]

CsvFiles == UNION {[1..n -> CsvRows] : n \in 1..MaxRows}

\* CSV files whose label columns play no part
PlainRows == [file : Files, action : {<<1>>}, object : {<<1>>}]

PlainCsvFiles == UNION {[1..n -> PlainRows] : n \in 1..MaxRows}

\* evaluation CSV files: no label columns, their files among Files
EvalRows == [file : {f \in Files : f.quiet = 20 /\ f.body \in {512, 1024, 2048}}]

EvalCsvFiles == UNION {[1..n -> EvalRows] : n \in 1..MaxRows}

\* lengths in seconds given as max_length / max_audio_len
Lengths == {<<2, 1>>, <<5, 2>>, <<3, 1>>}

----------------------------------------------------------------------------
(* read_data *)

\* librosa.load(path, mono=True, sr=None): the samples and the file's own rate
load(path, f) ==
    [wave |-> [kind |-> "wave", path |-> path, rate |-> f.rate, lead |-> f.lead,
               body |-> f.body, trail |-> f.trail, quiet |-> f.quiet],
     srr |-> f.rate]

\* read_data(csv_path, data) on heap h, c the rows of the CSV at csv_path.
\* srr is the loop variable left by the last row.
read_data(h, c, data) ==
    LET n == Len(c)
        x == [i \in 1..n |-> [idx |-> i - 1, Signal |-> load(i, c[i].file).wave]]
        y == [i \in 1..n |->
                [idx |-> i - 1, action |-> c[i].action, object |-> c[i].object,
                 intention |-> c[i].action \o c[i].object]]
        srr == load(n, c[n].file).srr
    IN  IF data = "train"
        THEN [heap |-> h \o <<x, y>>, x |-> Len(h) + 1, y |-> Len(h) + 2, srr |-> srr]
        ELSE [heap |-> Append(h, x), x |-> Len(h) + 1, y |-> 0, srr |-> srr]

----------------------------------------------------------------------------
(* trim_audios *)

\* librosa.effects.trim(wave, top_db, hop_length): the margins are cut, to a
\* multiple of hop_length, when they lie more than top_db below the peak
trim(w, top_db, hop_length) ==
    IF w.quiet <= top_db THEN w
    ELSE LET start == (w.lead \div hop_length) * hop_length
             end == Min(Samples(w), ceil(w.lead + w.body, hop_length) * hop_length)
         IN  [w EXCEPT !.lead = w.lead - start,
                       !.trail = end - (w.lead + w.body)]

\* a version of trim_audios that works on a copy of x and returns the copy
trim_audios_on_copy(h, x, top_db, hop_length) ==
    [heap |-> Append(h, [i \in DOMAIN h[x] |->
                  [h[x][i] EXCEPT !.Signal = trim(h[x][i].Signal, top_db, hop_length)]]),
     ret |-> Len(h) + 1]

\* trim_audios(x, top_db, hop_length): x.at[index, "Signal"] = wave for
\* every row of the frame x refers to; returns x
trim_audios(h, x, top_db, hop_length) ==
    [heap |-> [h EXCEPT ![x] = [i \in DOMAIN h[x] |->
                  [h[x][i] EXCEPT !.Signal = trim(h[x][i].Signal, top_db, hop_length)]]],
     ret |-> x]

----------------------------------------------------------------------------
(* convert_to_mfcc *)

\* mfcc.shape[1] of librosa.feature.mfcc(signal, sr=srr): one frame per hop, centred
actual_frames(w) == 1 + Samples(w) \div HopMfcc

\* ceil((max_audio_len * srr) / 512)
target_frames(srr, max_audio_len) ==
    ceil(max_audio_len[1] * srr, max_audio_len[2] * HopMfcc)

\* Python's a[:, 0:stop] on n columns
slice_len(n, stop) == IF stop >= 0 THEN Min(n, stop) ELSE Max(0, n + stop)

Frames(m) == m.kept + m.zeros

\* the branch condition with the ceiling taken first
pads_ceil(w, srr, max_audio_len) ==
    actual_frames(w) <= target_frames(srr, max_audio_len)

\* mfcc.shape[1] <= max_pad_len, max_pad_len = (max_audio_len * srr) / 512
pads(w, srr, max_audio_len) ==
    actual_frames(w) * max_audio_len[2] * HopMfcc <= max_audio_len[1] * srr

\* the truncation with an off-by-one stop
truncated_off_by_one(w, srr, max_audio_len) ==
    slice_len(actual_frames(w), target_frames(srr, max_audio_len) + 1)

\* columns of mfcc[:, 0 : ceil(max_pad_len)]
truncated(w, srr, max_audio_len) ==
    slice_len(actual_frames(w), target_frames(srr, max_audio_len))

\* pad_width = ceil(max_pad_len - mfcc.shape[1])
pad_width(w, srr, max_audio_len) ==
    ceil(max_audio_len[1] * srr - actual_frames(w) * max_audio_len[2] * HopMfcc,
         max_audio_len[2] * HopMfcc)

\* the loop body of convert_to_mfcc for one row's Signal
mfcc_row(w, srr, max_audio_len) ==
    IF pads(w, srr, max_audio_len)
    THEN [kind |-> "mfcc", path |-> w.path, n_coeff |-> NMfcc,
          kept |-> actual_frames(w), zeros |-> pad_width(w, srr, max_audio_len),
          branch |-> "pad"]
    ELSE [kind |-> "mfcc", path |-> w.path, n_coeff |-> NMfcc,
          kept |-> truncated(w, srr, max_audio_len), zeros |-> 0,
          branch |-> "truncate"]

\* convert_to_mfcc(x, srr, max_audio_len): x.at[index, "Signal"] = mfcc for
\* every row of the frame x refers to; returns x
convert_to_mfcc(h, x, srr, max_audio_len) ==
    [heap |-> [h EXCEPT ![x] = [i \in DOMAIN h[x] |->
                  [h[x][i] EXCEPT !.Signal = mfcc_row(h[x][i].Signal, srr, max_audio_len)]]],
     ret |-> x]

\* DataFrame.copy(): a new frame with the same rows
copy(h, x) == [heap |-> Append(h, h[x]), ret |-> Len(h) + 1]

----------------------------------------------------------------------------
(* remove_outliers *)

\* librosa.get_duration(signal, sr=srr) > max_length, i.e. samples / srr > max_length
too_long(w, srr, max_length) == Samples(w) * max_length[2] > max_length[1] * srr

\* np.where(np.array(t) > max_length)[0]: the 0-based positions, in the frame
\* the notebook name X_trimed refers to, of the rows longer than max_length
\* at the notebook's sample rate srr
ouliers_index(h, max_length, X_trimed, srr) ==
    {i - 1 : i \in {j \in DOMAIN h[X_trimed] :
                       too_long(h[X_trimed][j].Signal, srr, max_length)}}

Index(frame) == {frame[i].idx : i \in DOMAIN frame}

\* DataFrame.drop(labels, axis=0): the rows whose index label is in labels are
\* removed; a label that is not in the index raises KeyError
drop(frame, labels) ==
    LET keep(r) == r.idx \notin labels
    IN  IF labels \subseteq Index(frame)
        THEN [status |-> "ok", frame |-> SelectSeq(frame, keep)]
        ELSE [status |-> "KeyError", frame |-> <<>>]

\* remove_outliers with the labels side left as it was
remove_outliers_keeping_y(h, x, y, max_length, X_trimed, srr) ==
    LET out == ouliers_index(h, max_length, X_trimed, srr)
        xr == drop(h[x], out)
    IN  IF xr.status # "ok"
        THEN [status |-> "KeyError", heap |-> h, x |-> 0, y |-> 0]
        ELSE [status |-> "ok", heap |-> h \o <<xr.frame, h[y]>>,
              x |-> Len(h) + 1, y |-> Len(h) + 2]

\* remove_outliers(x, y, max_length); X_trimed and srr are the notebook's
\* top-level names, read by the body
remove_outliers(h, x, y, max_length, X_trimed, srr) ==
    LET out == ouliers_index(h, max_length, X_trimed, srr)
        xr == drop(h[x], out)
        yr == drop(h[y], out)
    IN  IF xr.status # "ok" \/ yr.status # "ok"
        THEN [status |-> "KeyError", heap |-> h, x |-> 0, y |-> 0]
        ELSE [status |-> "ok", heap |-> h \o <<xr.frame, yr.frame>>,
              x |-> Len(h) + 1, y |-> Len(h) + 2]

----------------------------------------------------------------------------
(* convert_to_numpy *)

\* np.array([x[x_columns].iloc[i]["Signal"] for i in range(len(x))])
signals(xframe) == [i \in 1..Len(xframe) |-> xframe[i]["Signal"]]

\* y[y_columns].to_numpy(): one row of values per row of y
to_numpy(yframe, y_columns) ==
    [i \in 1..Len(yframe) |-> [k \in 1..Len(y_columns) |-> yframe[i][y_columns[k]]]]

\* convert_to_numpy(x, x_columns, y, y_columns, data)
convert_to_numpy(xframe, yframe, y_columns, data) ==
    IF data # "train"
    THEN [x |-> signals(xframe), y |-> <<>>]
    ELSE [x |-> signals(xframe), y |-> to_numpy(yframe, y_columns)]

----------------------------------------------------------------------------
(* convert_y_to_oneHot and the LabelEncoder *)

\* string order: a < b
RECURSIVE Less(_, _)
Less(a, b) ==
    IF b = <<>> THEN FALSE
    ELSE IF a = <<>> THEN TRUE
    ELSE IF Head(a) # Head(b) THEN Head(a) < Head(b)
    ELSE Less(Tail(a), Tail(b))

\* np.unique: the distinct values, sorted
RECURSIVE sorted(_)
sorted(S) ==
    IF S = {} THEN <<>>
    ELSE LET m == CHOOSE a \in S : \A b \in S \ {a} : Less(a, b)
         IN  <<m>> \o sorted(S \ {m})

\* position of label l in classes, 0-based
code_of(classes, l) == (CHOOSE k \in 1..Len(classes) : classes[k] = l) - 1

\* LabelEncoder().fit_transform(y), y a column of labels
fit_transform(y) ==
    LET labels == [i \in 1..Len(y) |-> y[i][1]]
        classes == sorted(SeqToSet(labels))
    IN  [le |-> [classes_ |-> classes],
         codes |-> [i \in 1..Len(y) |-> code_of(classes, labels[i])]]

\* max of a non-empty sequence of numbers
max(s) == CHOOSE m \in SeqToSet(s) : \A v \in SeqToSet(s) : v <= m

\* to_categorical with the 1 put at position code instead of code + 1
to_categorical_shifted(codes, num_classes) ==
    [i \in 1..Len(codes) |->
        [j \in 1..num_classes |-> IF j = codes[i] THEN 1 ELSE 0]]

\* keras to_categorical(codes, num_classes)
to_categorical(codes, num_classes) ==
    [i \in 1..Len(codes) |->
        [j \in 1..num_classes |-> IF j - 1 = codes[i] THEN 1 ELSE 0]]

\* convert_y_to_oneHot(y); max() of an empty sequence raises ValueError
convert_y_to_oneHot(y) ==
    IF y = <<>> THEN [status |-> "ValueError", y_oneHot |-> <<>>, le |-> None]
    ELSE LET ft == fit_transform(y)
         IN  [status |-> "ok",
              y_oneHot |-> to_categorical(ft.codes, max(ft.codes) + 1),
              le |-> ft.le]

\* np.argmax of one row: the first position of the largest value, 0-based
argmax(v) ==
    (CHOOSE k \in 1..Len(v) :
        /\ \A j \in 1..Len(v) : v[j] <= v[k]
        /\ \A j \in 1..(k - 1) : v[j] < v[k]) - 1

\* le.inverse_transform(codes): a code outside 0..C-1 raises ValueError
inverse_transform(le, codes) ==
    IF \E i \in 1..Len(codes) : codes[i] \notin 0..(Len(le.classes_) - 1)
    THEN [status |-> "ValueError", labels |-> <<>>]
    ELSE [status |-> "ok",
          labels |-> [i \in 1..Len(codes) |-> le.classes_[codes[i] + 1]]]

----------------------------------------------------------------------------
(* test_output_csv *)

\* what model.predict may return for one row: a row of num_classes scores
\* with one largest score, or with all scores equal
Scores(num_classes) ==
    {[j \in 1..num_classes |-> IF j = k THEN 2 ELSE 1] : k \in 0..num_classes}

\* df.index used as Id, shifted by one
to_csv_Id_from_1(labels) ==
    [columns |-> <<"Id", "Predicted">>,
     rows |-> [i \in 1..Len(labels) |-> <<i, labels[i]>>]]

\* df = pd.DataFrame(labels); df["Id"] = df.index; df = df.iloc[:, [1, 0]];
\* df.rename(columns={0: "Predicted"}); df.to_csv(path, index=False)
to_csv(labels) ==
    LET df == [columns |-> <<"0", "Id">>,
               rows |-> [i \in 1..Len(labels) |-> <<labels[i], i - 1>>]]
        swapped == [columns |-> <<df.columns[2], df.columns[1]>>,
                    rows |-> [i \in 1..Len(df.rows) |-> <<df.rows[i][2], df.rows[i][1]>>]]
    IN  [swapped EXCEPT !.columns =
            [k \in 1..2 |-> IF swapped.columns[k] = "0" THEN "Predicted"
                            ELSE swapped.columns[k]]]

\* test_output_csv, from read_data to convert_to_numpy, on heap h: c the rows
\* of the CSV at evaluate_csv_path
test_features(h, c, max_audio_length, top_db, hop_length) ==
    LET rd == read_data(h, c, "Not_train")
        X_test_trimed == trim_audios(rd.heap, rd.x, top_db, hop_length)
        cp == copy(X_test_trimed.heap, X_test_trimed.ret)
        X_mfcc_test == convert_to_mfcc(cp.heap, cp.ret, rd.srr, max_audio_length)
    IN  [heap |-> X_mfcc_test.heap,
         srr_test |-> rd.srr,
         X_test_trimed |-> X_test_trimed.ret,
         X_mfcc_test |-> X_mfcc_test.ret,
         X_n_test |-> convert_to_numpy(X_mfcc_test.heap[X_mfcc_test.ret], <<>>, <<>>,
                                       "not train").x]

\* test_output_csv, from model.predict to df.to_csv: predicted is what
\* model.predict(X_n_test) returns, one row of scores per row of X_n_test
test_predictions(X_n_test, le, predicted) ==
    LET predicted_y == [i \in 1..Len(X_n_test) |-> argmax(predicted[i])]
        predicted_y_string == inverse_transform(le, predicted_y)
    IN  [predicted_y |-> predicted_y,
         status |-> predicted_y_string.status,
         output |-> IF predicted_y_string.status = "ok"
                    THEN to_csv(predicted_y_string.labels)
                    ELSE None]

----------------------------------------------------------------------------
(* cnn_model.fit with the ModelCheckpoint callback *)

\* np.Inf, the callback's initial best: above every validation loss
Inf == MaxLoss + 1

\* the monitor comparison with <= in place of <
monitor_op_le(current, best) == current <= best

\* ModelCheckpoint(save_best_only=True), monitor val_loss: np.less(current, best)
monitor_op(current, best) == current < best

\* ModelCheckpoint.on_epoch_end for the epoch that ended with val_loss:
\* the weights of epoch e are written when val_loss improves on best.
\* No callback of the run sets stop_training.
on_epoch_end(f, val_loss) ==
    LET e == f.epoch + 1
        improved == monitor_op(val_loss, f.best)
    IN  [f EXCEPT !.epoch = e,
                  !.val_loss = val_loss,
                  !.best = IF improved THEN val_loss ELSE f.best,
                  !.saved = improved,
                  !.checkpoint = IF improved THEN [weights |-> e, val_loss |-> val_loss]
                                 ELSE f.checkpoint]

\* before the first epoch: no checkpoint file (weights 0).  `seen` (the
\* validation losses of the epochs before the last one) and `argmin` (the
\* first epoch with the least validation loss so far) are history kept for
\* stating properties; the program does not hold them.
FitInit ==
    [epoch |-> 0, val_loss |-> Inf, best |-> Inf, saved |-> FALSE,
     checkpoint |-> [weights |-> 0, val_loss |-> Inf], stop_training |-> FALSE,
     seen |-> {}, argmin |-> 0]

----------------------------------------------------------------------------
(* The notebook's names before the training cell has run.  nb.datasets and  *)
(* nb.loads belong to the session of SpecFilter below.                      *)

\* max_lenght = 2.5
max_lenght == <<5, 2>>

NbInit ==
    [X |-> 0, Y |-> 0, srr |-> 0, X_trimed |-> 0, X_no_outliers |-> 0,
     y_no_outliers |-> 0, X_mfcc |-> 0, X_n |-> <<>>, Y_n |-> <<>>,
     y_oneHot |-> <<>>, le |-> None, datasets |-> {}, loads |-> 0]

----------------------------------------------------------------------------
(* The training cell, statement by statement *)

\* X, Y, srr = read_data()
ReadData ==
    /\ pc = "read_data"
    /\ LET r == read_data(heap, csv, "train")
       IN  /\ heap' = r.heap
           /\ nb' = [nb EXCEPT !.X = r.x, !.Y = r.y, !.srr = r.srr]
    /\ pc' = "trim_audios"
    /\ UNCHANGED <<csv, calls, fit>>

\* X_trimed = trim_audios(X, top_db=10, hop_length=10)
TrimAudios ==
    /\ pc = "trim_audios"
    /\ LET r == trim_audios(heap, nb.X, 10, 10)
       IN  /\ heap' = r.heap
           /\ nb' = [nb EXCEPT !.X_trimed = r.ret]
    /\ pc' = "remove_outliers"
    /\ UNCHANGED <<csv, calls, fit>>

\* X_no_outliers, y_no_outliers = remove_outliers(X_trimed, Y, max_length=max_lenght)
RemoveOutliers ==
    /\ pc = "remove_outliers"
    /\ LET r == remove_outliers(heap, nb.X_trimed, nb.Y, max_lenght, nb.X_trimed, nb.srr)
       IN  /\ heap' = r.heap
           /\ nb' = [nb EXCEPT !.X_no_outliers = r.x, !.y_no_outliers = r.y]
           /\ pc' = IF r.status = "ok" THEN "convert_to_mfcc" ELSE "error"
    /\ UNCHANGED <<csv, calls, fit>>

\* X_mfcc = convert_to_mfcc(X_no_outliers, srr, max_audio_len=max_lenght)
ConvertToMfcc ==
    /\ pc = "convert_to_mfcc"
    /\ LET r == convert_to_mfcc(heap, nb.X_no_outliers, nb.srr, max_lenght)
       IN  /\ heap' = r.heap
           /\ nb' = [nb EXCEPT !.X_mfcc = r.ret]
    /\ pc' = "convert_to_numpy"
    /\ UNCHANGED <<csv, calls, fit>>

\* X_n, Y_n = convert_to_numpy(x=X_mfcc, x_columns=["Signal"], y=y_no_outliers,
\*                             y_columns=["intention"], data="train")
ConvertToNumpy ==
    /\ pc = "convert_to_numpy"
    /\ LET r == convert_to_numpy(heap[nb.X_mfcc], heap[nb.y_no_outliers],
                                 <<"intention">>, "train")
       IN  nb' = [nb EXCEPT !.X_n = r.x, !.Y_n = r.y]
    /\ pc' = "convert_y_to_oneHot"
    /\ UNCHANGED <<csv, heap, calls, fit>>

\* y_oneHot, le = convert_y_to_oneHot(Y_n)
ConvertYToOneHot ==
    /\ pc = "convert_y_to_oneHot"
    /\ LET r == convert_y_to_oneHot(nb.Y_n)
       IN  /\ nb' = [nb EXCEPT !.y_oneHot = r.y_oneHot, !.le = r.le]
           /\ pc' = IF r.status = "ok" THEN "done" ELSE "error"
    /\ UNCHANGED <<csv, heap, calls, fit>>

Init ==
    /\ csv \in CsvFiles
    /\ heap = <<>>
    /\ nb = NbInit
    /\ pc = "read_data"
    /\ calls = <<>>
    /\ fit = FitInit

Next ==
    \/ ReadData
    \/ TrimAudios
    \/ RemoveOutliers
    \/ ConvertToMfcc
    \/ ConvertToNumpy
    \/ ConvertYToOneHot

Spec == Init /\ [][Next]_vars

----------------------------------------------------------------------------
(* Properties of the training cell *)

\* the statements of the training cell that have run
Ran(step) ==
    LET order == <<"read_data", "trim_audios", "remove_outliers", "convert_to_mfcc",
                   "convert_to_numpy", "convert_y_to_oneHot", "done">>
        at(p) == CHOOSE k \in 1..Len(order) : order[k] = p
    IN  pc # "error" /\ at(step) < at(pc)

\* the frame read_data returned, as it was when read_data returned
AsRead == read_data(<<>>, csv, "train").heap[1]

\* the intention label of CSV row k
IntentionOf(k) == csv[k].action \o csv[k].object

MixedRates == \E i, j \in DOMAIN csv : csv[i].file.rate # csv[j].file.rate

\* C3: the frames remove_outliers returns have equal length, keep the
\* retained rows in their original order and hold, at each position, the
\* feature and the label of one and the same CSV row; so do the arrays X_n
\* and Y_n that convert_to_numpy makes of them.
C3_Aligned ==
    /\ Ran("remove_outliers") =>
          LET xo == heap[nb.X_no_outliers]
              yo == heap[nb.y_no_outliers]
          IN  /\ Len(xo) = Len(yo)
              /\ \A i \in DOMAIN xo :
                    /\ xo[i].idx = yo[i].idx
                    /\ xo[i].Signal.path = xo[i].idx + 1
                    /\ yo[i].intention = IntentionOf(yo[i].idx + 1)
              /\ \A i, j \in DOMAIN xo : i < j => xo[i].idx < xo[j].idx
    /\ Ran("convert_to_numpy") =>
          /\ Len(nb.X_n) = Len(nb.Y_n)
          /\ Len(nb.X_n) = Len(heap[nb.X_no_outliers])
          /\ \A i \in DOMAIN nb.X_n : nb.Y_n[i] = <<IntentionOf(nb.X_n[i].path)>>
          /\ \A i, j \in DOMAIN nb.X_n : i < j => nb.X_n[i].path < nb.X_n[j].path

\* a row was dropped ahead of a retained row with another label, and the
\* arrays were built
C3_Witness ==
    /\ Ran("convert_to_numpy")
    /\ Len(csv) = 2
    /\ IntentionOf(1) # IntentionOf(2)
    /\ Len(nb.X_n) = 1
    /\ nb.X_n[1].path = 2

\* C4: every training label, encoded by convert_y_to_oneHot, arg-maxed and
\* decoded by the returned encoder, comes back unchanged; the codes map the
\* distinct training labels one-to-one onto 0..C-1, C their number, and the
\* one-hot vectors have width C.
C4_RoundTrip ==
    Ran("convert_y_to_oneHot") =>
        LET labels == {nb.Y_n[i][1] : i \in DOMAIN nb.Y_n}
            C == Cardinality(labels)
            classes == nb.le.classes_
        IN  /\ Len(nb.y_oneHot) = Len(nb.Y_n)
            /\ \A i \in DOMAIN nb.Y_n :
                  /\ Len(nb.y_oneHot[i]) = C
                  /\ inverse_transform(nb.le, <<argmax(nb.y_oneHot[i])>>)
                       = [status |-> "ok", labels |-> <<nb.Y_n[i][1]>>]
            /\ Len(classes) = C
            /\ {classes[k] : k \in 1..C} = labels
            /\ {code_of(classes, l) : l \in labels} = 0..(C - 1)

\* two rows with different labels were encoded
C4_Witness ==
    /\ Ran("convert_y_to_oneHot")
    /\ Len(nb.Y_n) = 2
    /\ nb.Y_n[1] # nb.Y_n[2]
    /\ argmax(nb.y_oneHot[1]) = 1

\* C8: when the files of the CSV do not all have one sample rate, read_data
\* does not return.
C8_MismatchIsAnError == MixedRates => ~Ran("read_data")

----------------------------------------------------------------------------
(* test_output_csv called on an evaluation CSV, with an encoder that        *)
(* convert_y_to_oneHot returned and a saved model                           *)

\* label sets an encoder was fitted on
TrainedLabelSets ==
    { {<<1, 1>>}, {<<1, 2>>, <<1, 1>>}, {<<2, 2>>, <<1, 2>>, <<2, 1>>} }

\* widths of the output layer of the saved model
ModelWidths == 1..3

TestOutputCsv ==
    /\ pc = "test_output_csv"
    /\ \E max_audio_length \in Lengths :
         LET f == test_features(heap, csv, max_audio_length, 10, 10)
         IN  \E num_classes \in ModelWidths :
               \E predicted \in [1..Len(f.X_n_test) -> Scores(num_classes)] :
                  LET r == test_predictions(f.X_n_test, nb.le, predicted)
                  IN  /\ heap' = f.heap
                      /\ calls' = Append(calls,
                             [fn |-> "test_output_csv", num_classes |-> num_classes,
                              max_audio_length |-> max_audio_length,
                              predicted |-> predicted, srr_test |-> f.srr_test,
                              X_test_trimed |-> f.X_test_trimed,
                              X_mfcc_test |-> f.X_mfcc_test, X_n_test |-> f.X_n_test,
                              status |-> r.status, output |-> r.output])
    /\ pc' = "done"
    /\ UNCHANGED <<csv, nb, fit>>

InitInfer ==
    /\ csv \in EvalCsvFiles
    /\ heap = <<>>
    /\ \E S \in TrainedLabelSets : nb = [NbInit EXCEPT !.le = [classes_ |-> sorted(S)]]
    /\ pc = "test_output_csv"
    /\ calls = <<>>
    /\ fit = FitInit

NextInfer == TestOutputCsv

SpecInfer == InitInfer /\ [][NextInfer]_vars

\* the call of test_output_csv that has returned
Returned == pc = "done" /\ Len(calls) = 1

\* the least whole number of frames that is at least
\* max_audio_len * sample_rate / 512
LeastFramesCovering(srr, len) ==
    CHOOSE k \in 0..((len[1] * srr) \div 512 + 1) :
        /\ k * len[2] * 512 >= len[1] * srr
        /\ (k - 1) * len[2] * 512 < len[1] * srr

\* whether max_audio_len * sample_rate / 512 is a whole number
WholeFrames(srr, len) == (len[1] * srr) % (len[2] * 512) = 0

\* frames of the MFCC of row i before padding or truncation
ActualFrames(i) == 1 + Samples(heap[calls[1].X_test_trimed][i].Signal) \div 512

\* C1: every matrix convert_to_mfcc stores has 20 rows and exactly
\* ceil(max_audio_len * sample_rate / 512) columns, whatever the length of
\* the recording, so all matrices of the dataset have one shape.
C1_FixedShape ==
    Returned =>
        LET c == calls[1]
            x == heap[c.X_mfcc_test]
        IN  /\ Len(x) = Len(csv)
            /\ \A i \in DOMAIN x :
                  /\ x[i].Signal.kind = "mfcc"
                  /\ x[i].Signal.n_coeff = 20
                  /\ Frames(x[i].Signal) = LeastFramesCovering(c.srr_test, c.max_audio_length)
            /\ \A i, j \in DOMAIN x :
                  /\ Frames(x[i].Signal) = Frames(x[j].Signal)
                  /\ x[i].Signal.n_coeff = x[j].Signal.n_coeff

\* one recording had more frames than the target and another had fewer
C1_Witness ==
    /\ Returned
    /\ \E i, j \in DOMAIN csv :
          /\ ActualFrames(i) > LeastFramesCovering(calls[1].srr_test, calls[1].max_audio_length)
          /\ ActualFrames(j) < LeastFramesCovering(calls[1].srr_test, calls[1].max_audio_length)

\* C9: when the MFCC has exactly target_frames frames, the padding branch
\* stores it, with pad width 0 and no column removed, whether
\* max_audio_len * sample_rate / 512 is a whole number or not.
C9_BoundaryPads ==
    Returned =>
        LET c == calls[1]
            x == heap[c.X_mfcc_test]
        IN  \A i \in DOMAIN x :
                ActualFrames(i) = LeastFramesCovering(c.srr_test, c.max_audio_length) =>
                    /\ x[i].Signal.branch = "pad"
                    /\ x[i].Signal.zeros = 0
                    /\ x[i].Signal.kept = ActualFrames(i)

\* C9 as the code has it: when the MFCC has exactly target_frames frames the
\* matrix is stored unchanged; the padding branch (pad width 0) stores it
\* when max_audio_len * sample_rate / 512 is a whole number, and the
\* truncation branch (a slice that removes nothing) when it is not.
C9_BoundaryUnchanged ==
    Returned =>
        LET c == calls[1]
            x == heap[c.X_mfcc_test]
        IN  \A i \in DOMAIN x :
                ActualFrames(i) = LeastFramesCovering(c.srr_test, c.max_audio_length) =>
                    /\ x[i].Signal.zeros = 0
                    /\ x[i].Signal.kept = ActualFrames(i)
                    /\ x[i].Signal.branch =
                         IF WholeFrames(c.srr_test, c.max_audio_length)
                         THEN "pad" ELSE "truncate"

\* one recording with exactly target_frames frames where
\* max_audio_len * sample_rate / 512 is not a whole number
C9_Witness ==
    /\ Returned
    /\ ~WholeFrames(calls[1].srr_test, calls[1].max_audio_length)
    /\ \E i \in DOMAIN csv :
          ActualFrames(i) = LeastFramesCovering(calls[1].srr_test, calls[1].max_audio_length)

\* C5: the table test_output_csv writes has the columns (Id, Predicted) and
\* one row per row of the evaluation CSV, in its order, with Id 0..N-1; row
\* i holds the decoded arg-max of the prediction for input row i, a label
\* of the encoder's vocabulary.  It is written whenever the model has as
\* many outputs as the encoder has classes.
C5_OutputTable ==
    Returned =>
        LET c == calls[1]
            N == Len(csv)
            classes == nb.le.classes_
        IN  /\ c.num_classes = Len(classes) => c.status = "ok"
            /\ c.status = "ok" =>
                  /\ c.output.columns = <<"Id", "Predicted">>
                  /\ Len(c.output.rows) = N
                  /\ \A i \in 1..N :
                        /\ c.X_n_test[i].path = i
                        /\ c.output.rows[i][1] = i - 1
                        /\ c.output.rows[i][2] = classes[argmax(c.predicted[i]) + 1]
                        /\ \E k \in DOMAIN classes : c.output.rows[i][2] = classes[k]
                  /\ \A i, j \in 1..N :
                        i < j => c.output.rows[i][1] < c.output.rows[j][1]

\* a table of two rows with different predictions was written
C5_Witness ==
    /\ Returned
    /\ calls[1].status = "ok"
    /\ Len(calls[1].output.rows) = 2
    /\ calls[1].output.rows[1][2] # calls[1].output.rows[2][2]

----------------------------------------------------------------------------
(* remove_outliers called in a session in which the cell that reads and     *)
(* trims the dataset has run; nb.datasets are the (features, labels) pairs  *)
(* of frames the session holds, any of which may be passed as (x, y)        *)

\* X, Y, srr = read_data(); X_trimed = trim_audios(X, top_db=10, hop_length=10)
Loaded(h, n, c) ==
    LET rd == read_data(h, c, "train")
        tr == trim_audios(rd.heap, rd.x, 10, 10)
    IN  [heap |-> tr.heap,
         nb |-> [n EXCEPT !.X = rd.x, !.Y = rd.y, !.srr = rd.srr, !.X_trimed = tr.ret,
                          !.datasets = n.datasets \cup {<<tr.ret, rd.y>>},
                          !.loads = n.loads + 1]]

\* the cell is run again, on another CSV
Reload ==
    /\ pc = "loaded"
    /\ nb.loads < MaxLoads
    /\ \E c \in PlainCsvFiles :
         /\ csv' = c
         /\ heap' = Loaded(heap, nb, c).heap
         /\ nb' = Loaded(heap, nb, c).nb
    /\ UNCHANGED <<pc, calls, fit>>

\* remove_outliers(x, y, max_length) is called on a dataset the session holds
CallRemoveOutliers ==
    /\ pc = "loaded"
    /\ Len(calls) < MaxCalls
    /\ \E d \in nb.datasets, max_length \in Lengths :
         LET r == remove_outliers(heap, d[1], d[2], max_length, nb.X_trimed, nb.srr)
         IN  /\ heap' = r.heap
             /\ calls' = Append(calls,
                    [fn |-> "remove_outliers", x |-> d[1], y |-> d[2],
                     max_length |-> max_length, status |-> r.status,
                     x_removed_ouliers |-> r.x, y_removed_ouliers |-> r.y])
             /\ nb' = IF r.status = "ok"
                      THEN [nb EXCEPT !.datasets = nb.datasets \cup {<<r.x, r.y>>}]
                      ELSE nb
    /\ UNCHANGED <<csv, pc, fit>>

InitFilter ==
    /\ csv \in PlainCsvFiles
    /\ heap = Loaded(<<>>, NbInit, csv).heap
    /\ nb = Loaded(<<>>, NbInit, csv).nb
    /\ pc = "loaded"
    /\ calls = <<>>
    /\ fit = FitInit

NextFilter ==
    \/ Reload
    \/ CallRemoveOutliers

SpecFilter == InitFilter /\ [][NextFilter]_vars

\* the rows of frame whose index labels are the labels of the rows of x
\* that last no longer than max_length, each at its own file's sample rate
Retained(frame, x, max_length) ==
    LET short == {x[i].idx : i \in {j \in DOMAIN x :
                      Samples(x[j].Signal) * max_length[2]
                        <= max_length[1] * x[j].Signal.rate}}
        keep(r) == r.idx \in short
    IN  SelectSeq(frame, keep)

\* C2: remove_outliers(x, y, max_length) returns exactly the rows of x, and
\* of y, whose recording lasts no longer than max_length.
C2_ExactFilter ==
    \A k \in DOMAIN calls :
        LET c == calls[k]
        IN  /\ c.status = "ok"
            /\ heap[c.x_removed_ouliers] = Retained(heap[c.x], heap[c.x], c.max_length)
            /\ heap[c.y_removed_ouliers] = Retained(heap[c.y], heap[c.x], c.max_length)

\* C7: two calls of remove_outliers with the same x, y and max_length return
\* the same collections, whatever the notebook's X_trimed and srr are.
C7_ArgumentsOnly ==
    \A i, j \in DOMAIN calls :
        (/\ calls[i].x = calls[j].x
         /\ calls[i].y = calls[j].y
         /\ calls[i].max_length = calls[j].max_length)
        => /\ calls[i].status = calls[j].status
           /\ calls[i].status = "ok" =>
                /\ heap[calls[i].x_removed_ouliers] = heap[calls[j].x_removed_ouliers]
                /\ heap[calls[i].y_removed_ouliers] = heap[calls[j].y_removed_ouliers]

----------------------------------------------------------------------------
(* cnn_model.fit(X_n, y_oneHot, batch_size=8, epochs=200, ...,               *)
(* callbacks=[keras_callback, checkpointer])                                 *)

\* one epoch ends with some validation loss and the callbacks run
EpochEnd ==
    /\ pc = "fit"
    /\ fit.epoch < Epochs
    /\ ~fit.stop_training
    /\ \E val_loss \in 1..MaxLoss :
         LET seen == IF fit.epoch = 0 THEN {} ELSE fit.seen \cup {fit.val_loss}
         IN  fit' = [on_epoch_end(fit, val_loss) EXCEPT
                        !.seen = seen,
                        !.argmin = IF \A l \in seen : val_loss < l
                                   THEN fit.epoch + 1 ELSE fit.argmin]
    /\ UNCHANGED <<csv, heap, nb, pc, calls>>

\* fit returns: all epochs ran, or a callback asked to stop
TrainEnd ==
    /\ pc = "fit"
    /\ fit.epoch = Epochs \/ fit.stop_training
    /\ pc' = "trained"
    /\ UNCHANGED <<csv, heap, nb, calls, fit>>

InitFit ==
    /\ csv = <<>>
    /\ heap = <<>>
    /\ nb = NbInit
    /\ pc = "fit"
    /\ calls = <<>>
    /\ fit = FitInit

NextFit ==
    \/ EpochEnd
    \/ TrainEnd

SpecFit == InitFit /\ [][NextFit]_vars

\* C6: the checkpoint is written at the end of an epoch exactly when that
\* epoch's validation loss is strictly lower than that of every earlier
\* epoch; so after every epoch the checkpoint holds the weights of the
\* first epoch with the least validation loss so far; and fit returns after
\* the last epoch only.
C6_BestOnly ==
    /\ fit.epoch >= 1 =>
          /\ fit.saved <=> (\A l \in fit.seen : fit.val_loss < l)
          /\ fit.checkpoint.weights = fit.argmin
          /\ \A l \in fit.seen \cup {fit.val_loss} : fit.checkpoint.val_loss <= l
          /\ fit.checkpoint.val_loss \in fit.seen \cup {fit.val_loss}
    /\ pc = "trained" => fit.epoch = 200

\* a worse epoch followed a better one and left the checkpoint alone, and
\* training went on to the last epoch
C6_Witness ==
    /\ pc = "trained"
    /\ ~fit.saved
    /\ fit.checkpoint.weights = 2
    /\ fit.checkpoint.val_loss < fit.val_loss
    /\ Cardinality(fit.seen) = MaxLoss

====
